---- MODULE Spec2Model ----
(***************************************************************************)
(* A model of the two translators of the repository:                       *)
(*   - "Hack assembler/HackAssembler.py": Parser, Assembler (two passes),  *)
(*     to_binary;                                                          *)
(*   - "VM translator/VMTranslator.py": Parser, CodeWriter, VMTranslator.  *)
(* Source text that the parsers take apart (an input line) is a sequence   *)
(* of one-character strings; text that is only compared, concatenated or   *)
(* used as a dictionary key (mnemonics, symbols, bit strings, labels) is a *)
(* string.  Str turns the first into the second.                           *)
(***************************************************************************)
EXTENDS Integers, Sequences, FiniteSets, TLC

VARIABLES
    \* ---- Hack assembler ----
    asm,             \* the .asm input file: a sequence of raw lines
    pc,              \* position of the driver
    file_pos,        \* number of lines the current Parser has read
    hack_line,       \* Parser.hack_line
    symbols,         \* Assembler.symbols
    line_count,      \* first_pass: line_count
    variable_count,  \* second_pass: variable_count
    hack_file,       \* the lines written to the .hack output so far
    hack_file_open,  \* the .hack output stream is open
    \* ---- VM translator ----
    cw,              \* the CodeWriter object
    vm_pc,           \* position of the VMTranslator driver
    translated,      \* the .vm files translated so far
    vm_file,         \* translate: full_path, the file being translated
    vm_input,        \* the VM lines translated so far, each with the place of its code
    \* ---- Hack machine running emitted code ----
    vm_program,      \* the VM program whose translation is in ROM
    cpu_pc,          \* the program counter
    reg_A,           \* the A register
    reg_D,           \* the D register
    ram,             \* the RAM
    start            \* SP, the pointers and the stack the run started with

asmVars ==
    <<asm, pc, file_pos, hack_line, symbols, line_count, variable_count, hack_file,
      hack_file_open>>

vmVars == <<cw, vm_pc, translated, vm_file, vm_input>>

cpuVars == <<vm_program, cpu_pc, reg_A, reg_D, ram, start>>

vars == <<asmVars, vmVars, cpuVars>>

\* the assembler is not running
AsmIdle ==
    /\ asm = <<>> /\ pc = "off" /\ file_pos = 0 /\ hack_line = <<>>
    /\ symbols = <<>> /\ line_count = 0 /\ variable_count = 0 /\ hack_file = <<>>
    /\ hack_file_open = FALSE

\* the VM translator is not running
VmIdle ==
    /\ cw = <<>> /\ vm_pc = "off" /\ translated = {} /\ vm_file = <<>> /\ vm_input = <<>>

\* no machine is running
CpuIdle ==
    /\ vm_program = <<>> /\ cpu_pc = 0 /\ reg_A = 0 /\ reg_D = 0 /\ ram = <<>> /\ start = <<>>

(***************************************************************************)
(* Python string operations on sequences of characters.                    *)
(***************************************************************************)

\* None, and also the empty string: has_more_lines reads only the truth
\* value of hack_line, which is false for both.
None == <<>>

Whitespace == {" ", "\t", "\n", "\r"}

Digits == <<"0", "1", "2", "3", "4", "5", "6", "7", "8", "9">>

RECURSIVE Str(_)
\* the string spelled by a sequence of characters
Str(s) ==
    IF s = <<>> THEN "" ELSE Head(s) \o Str(Tail(s))

\* s.startswith(p)
startswith(s, p) ==
    Len(s) >= Len(p) /\ SubSeq(s, 1, Len(p)) = p

\* the first index at which p occurs in s, 0 when p not in s
find(s, p) ==
    LET hits == {i \in 1..(Len(s) - Len(p) + 1) : SubSeq(s, i, i + Len(p) - 1) = p}
    IN  IF hits = {} THEN 0 ELSE CHOOSE i \in hits : \A k \in hits : i <= k

\* p in s
contains(s, p) ==
    find(s, p) # 0

RECURSIVE split(_, _)
\* s.split(p)
split(s, p) ==
    LET i == find(s, p)
    IN  IF i = 0 THEN <<s>>
        ELSE <<SubSeq(s, 1, i - 1)>> \o split(SubSeq(s, i + Len(p), Len(s)), p)

RECURSIVE lstrip(_)
lstrip(s) ==
    IF s # <<>> /\ Head(s) \in Whitespace THEN lstrip(Tail(s)) ELSE s

RECURSIVE rstrip(_)
rstrip(s) ==
    IF s # <<>> /\ s[Len(s)] \in Whitespace THEN rstrip(SubSeq(s, 1, Len(s) - 1)) ELSE s

\* s.strip()
strip(s) ==
    rstrip(lstrip(s))

\* s.isnumeric(), for the ASCII input the assembler reads
isnumeric(s) ==
    s # <<>> /\ \A i \in 1..Len(s) : \E d \in 1..10 : s[i] = Digits[d]

DigitValue(c) ==
    (CHOOSE d \in 1..10 : Digits[d] = c) - 1

RECURSIVE int(_)
\* int(s) of a string of decimal digits
int(s) ==
    IF s = <<>> THEN 0 ELSE 10 * int(SubSeq(s, 1, Len(s) - 1)) + DigitValue(s[Len(s)])

RECURSIVE bin(_)
\* bin(n).replace("0b", "")
bin(n) ==
    IF n < 2 THEN (IF n = 0 THEN "0" ELSE "1")
    ELSE bin(n \div 2) \o (IF n % 2 = 0 THEN "0" ELSE "1")

RECURSIVE zeros(_)
zeros(k) ==
    IF k <= 0 THEN "" ELSE "0" \o zeros(k - 1)

\* to_binary: the binary digits, padded on the left with '0' while shorter
\* than 15 characters; a longer string is returned as it is.
to_binary(n) ==
    zeros(15 - Len(bin(n))) \o bin(n)

(***************************************************************************)
(* Assembler.CODE and Assembler.symbols                                    *)
(***************************************************************************)

CODE_comp ==
    [m \in {"0", "1", "-1", "D", "A", "!D", "!A", "-D", "-A", "D+1", "A+1", "D-1",
            "A-1", "D+A", "D-A", "A-D", "D&A", "D|A", "M", "!M", "-M", "M+1",
            "M-1", "D+M", "D-M", "M-D", "D&M", "D|M"} |->
        CASE m = "0" -> "0101010"
          [] m = "1" -> "0111111"
          [] m = "-1" -> "0111010"
          [] m = "D" -> "0001100"
          [] m = "A" -> "0110000"
          [] m = "!D" -> "0001101"
          [] m = "!A" -> "0110001"
          [] m = "-D" -> "0001111"
          [] m = "-A" -> "0110011"
          [] m = "D+1" -> "0011111"
          [] m = "A+1" -> "0110111"
          [] m = "D-1" -> "0001110"
          [] m = "A-1" -> "0110010"
          [] m = "D+A" -> "0000010"
          [] m = "D-A" -> "0010011"
          [] m = "A-D" -> "0000111"
          [] m = "D&A" -> "0000000"
          [] m = "D|A" -> "0010101"
          [] m = "M" -> "1110000"
          [] m = "!M" -> "1110001"
          [] m = "-M" -> "1110011"
          [] m = "M+1" -> "1110111"
          [] m = "M-1" -> "1110010"
          [] m = "D+M" -> "1000010"
          [] m = "D-M" -> "1010011"
          [] m = "M-D" -> "1000111"
          [] m = "D&M" -> "1000000"
          [] m = "D|M" -> "1010101"]

CODE_dest ==
    [m \in {"null", "M", "D", "MD", "A", "AM", "AD", "AMD"} |->
        CASE m = "null" -> "000"
          [] m = "M" -> "001"
          [] m = "D" -> "010"
          [] m = "MD" -> "011"
          [] m = "A" -> "100"
          [] m = "AM" -> "101"
          [] m = "AD" -> "110"
          [] m = "AMD" -> "111"]

CODE_jump ==
    [m \in {"null", "JGT", "JEQ", "JGE", "JLT", "JNE", "JLE", "JMP"} |->
        CASE m = "null" -> "000"
          [] m = "JGT" -> "001"
          [] m = "JEQ" -> "010"
          [] m = "JGE" -> "011"
          [] m = "JLT" -> "100"
          [] m = "JNE" -> "101"
          [] m = "JLE" -> "110"
          [] m = "JMP" -> "111"]

\* the class attribute Assembler.symbols as written in the source
PredefinedSymbols ==
    [s \in {"SP", "LCL", "ARG", "THIS", "THAT", "R0", "R1", "R2", "R3", "R4", "R5",
            "R6", "R7", "R8", "R9", "R10", "R11", "R12", "R13", "R14", "R15",
            "SCREEN", "KBD"} |->
        CASE s = "SP" -> "000000000000000"
          [] s = "LCL" -> "000000000000001"
          [] s = "ARG" -> "000000000000010"
          [] s = "THIS" -> "000000000000011"
          [] s = "THAT" -> "000000000000100"
          [] s = "R0" -> "000000000000000"
          [] s = "R1" -> "000000000000001"
          [] s = "R2" -> "000000000000010"
          [] s = "R3" -> "000000000000011"
          [] s = "R4" -> "000000000000100"
          [] s = "R5" -> "000000000000101"
          [] s = "R6" -> "000000000000110"
          [] s = "R7" -> "000000000000111"
          [] s = "R8" -> "000000000001000"
          [] s = "R9" -> "000000000001001"
          [] s = "R10" -> "000000000001010"
          [] s = "R11" -> "000000000001011"
          [] s = "R12" -> "000000000001100"
          [] s = "R13" -> "000000000001101"
          [] s = "R14" -> "000000000001110"
          [] s = "R15" -> "000000000001111"
          [] s = "SCREEN" -> "100000000000000"
          [] s = "KBD" -> "110000000000000"]

(***************************************************************************)
(* Parser (assembler)                                                      *)
(***************************************************************************)

\* file.readline() at offset pos: the next raw line, '' at the end of file
readline(file, pos) ==
    IF pos < Len(file) THEN file[pos + 1] ELSE <<>>

RECURSIVE advance(_, _)
\* Parser.advance: the parser's offset and current line after the call
advance(file, pos) ==
    LET line == readline(file, pos)
        next == IF pos < Len(file) THEN pos + 1 ELSE pos
    IN  IF startswith(line, <<"/", "/">>) \/ line = <<"\n">>
        THEN advance(file, next)
        ELSE IF contains(line, <<"/", "/">>)
        THEN [pos |-> next, line |-> strip(split(line, <<"/", "/">>)[1])]
        ELSE IF line # <<>>
        THEN [pos |-> next, line |-> strip(line)]
        ELSE [pos |-> next, line |-> None]

\* Parser.has_more_lines
has_more_lines(line) ==
    line # <<>>

\* Parser.instruction_type; "None" when no branch returns
instruction_type(line) ==
    IF startswith(line, <<"@">>) THEN "A-Instruction"
    ELSE IF contains(line, <<"=">>) \/ contains(line, <<";">>) THEN "C-Instruction"
    ELSE IF startswith(line, <<"(">>) THEN "L-Instruction"
    ELSE "None"

\* Parser.symbol
symbol(line) ==
    IF startswith(line, <<"@">>) THEN SubSeq(line, 2, Len(line))
    ELSE SubSeq(line, 2, Len(line) - 1)

\* Parser.comp
comp(line) ==
    IF contains(line, <<"=">>) THEN split(line, <<"=">>)[2]
    ELSE split(line, <<";">>)[1]

\* Parser.dest
dest(line) ==
    IF contains(line, <<"=">>) THEN Str(split(line, <<"=">>)[1]) ELSE "null"

\* Parser.jump
jump(line) ==
    IF contains(line, <<";">>) THEN Str(split(line, <<";">>)[2]) ELSE "null"

(***************************************************************************)
(* Assembler: first_pass and second_pass, one action per loop iteration    *)
(***************************************************************************)

\* first_pass, line 184: the address a new label is bound to
LabelAddress(count) ==
    to_binary(count)

\* second_pass, line 220: the address a new variable is bound to
VariableAddressFixed(count) ==
    to_binary(16)

VariableAddress(count) ==
    to_binary(count + 16)

\* dictionary d with d[k] = v
Bind(d, k, v) ==
    [x \in DOMAIN d \cup {k} |-> IF x = k THEN v ELSE d[x]]

\* Assembler.__init__ up to the first loop test of first_pass; the input
\* file is any sequence of lines of the alphabet.
AsmStart(file) ==
    /\ asm = file
    /\ pc = "first_pass"
    /\ file_pos = advance(file, 0).pos
    /\ hack_line = advance(file, 0).line
    /\ symbols = PredefinedSymbols
    /\ line_count = 0
    /\ variable_count = 0
    /\ hack_file = <<>>
    /\ hack_file_open = FALSE
    /\ VmIdle
    /\ CpuIdle

\* one iteration of the loop of first_pass
FirstPassStep ==
    /\ pc = "first_pass"
    /\ has_more_lines(hack_line)
    /\ IF instruction_type(hack_line) = "L-Instruction"
          /\ Str(symbol(hack_line)) \notin DOMAIN symbols
       THEN /\ symbols' = Bind(symbols, Str(symbol(hack_line)), LabelAddress(line_count))
            /\ UNCHANGED line_count
       ELSE /\ line_count' = line_count + 1
            /\ UNCHANGED symbols
    /\ file_pos' = advance(asm, file_pos).pos
    /\ hack_line' = advance(asm, file_pos).line
    /\ UNCHANGED <<asm, pc, variable_count, hack_file, hack_file_open>>
    /\ UNCHANGED <<vmVars, cpuVars>>

\* first_pass ends; __init__ opens the output in a with statement and
\* second_pass builds its parser
FirstPassEnd ==
    /\ pc = "first_pass"
    /\ ~has_more_lines(hack_line)
    /\ pc' = "second_pass"
    /\ file_pos' = advance(asm, 0).pos
    /\ hack_line' = advance(asm, 0).line
    /\ variable_count' = 0
    /\ hack_file' = <<>>
    /\ hack_file_open' = TRUE
    /\ UNCHANGED <<asm, symbols, line_count>>
    /\ UNCHANGED <<vmVars, cpuVars>>

\* one iteration of the loop of second_pass; a KeyError leaves the with
\* statement, which closes the output with the lines written so far, and
\* ends the program
SecondPassStep ==
    /\ pc = "second_pass"
    /\ has_more_lines(hack_line)
    /\ LET type == instruction_type(hack_line)
           sym == symbol(hack_line)
           fresh == ~isnumeric(sym) /\ Str(sym) \notin DOMAIN symbols
           table == IF type = "A-Instruction" /\ fresh
                    THEN Bind(symbols, Str(sym), VariableAddress(variable_count))
                    ELSE symbols
           address == IF isnumeric(sym) THEN to_binary(int(sym)) ELSE table[Str(sym)]
           keyError == \/ Str(comp(hack_line)) \notin DOMAIN CODE_comp
                       \/ dest(hack_line) \notin DOMAIN CODE_dest
                       \/ jump(hack_line) \notin DOMAIN CODE_jump
       IN  /\ symbols' = table
           /\ variable_count' = IF type = "A-Instruction" /\ fresh
                                THEN variable_count + 1 ELSE variable_count
           /\ hack_file' =
                CASE type = "A-Instruction" ->
                        Append(hack_file, "0" \o address \o "\n")
                  [] type = "C-Instruction" /\ ~keyError ->
                        Append(hack_file, "111" \o CODE_comp[Str(comp(hack_line))]
                                          \o CODE_dest[dest(hack_line)]
                                          \o CODE_jump[jump(hack_line)] \o "\n")
                  [] OTHER -> hack_file
           /\ IF type = "C-Instruction" /\ keyError
              THEN /\ pc' = "error"
                   /\ hack_file_open' = FALSE
                   /\ UNCHANGED <<file_pos, hack_line>>
              ELSE /\ pc' = pc
                   /\ file_pos' = advance(asm, file_pos).pos
                   /\ hack_line' = advance(asm, file_pos).line
                   /\ UNCHANGED hack_file_open
    /\ UNCHANGED <<asm, line_count>>
    /\ UNCHANGED <<vmVars, cpuVars>>

\* second_pass ends and the output file is closed
SecondPassEnd ==
    /\ pc = "second_pass"
    /\ ~has_more_lines(hack_line)
    /\ pc' = "done"
    /\ hack_file_open' = FALSE
    /\ UNCHANGED <<asm, file_pos, hack_line, symbols, line_count, variable_count, hack_file>>
    /\ UNCHANGED <<vmVars, cpuVars>>

AsmNext ==
    \/ FirstPassStep
    \/ FirstPassEnd
    \/ SecondPassStep
    \/ SecondPassEnd

(***************************************************************************)
(* Input programs                                                          *)
(***************************************************************************)

MaxLines == 3

\* the raw lines the input programs are made of
LineAlphabet ==
    { <<"@", "i", "\n">>,
      <<"@", "j", "\n">>,
      <<"@", "L", "\n">>,
      <<"@", "7", "\n">>,
      <<"@", "3", "2", "7", "6", "7", "\n">>,
      <<"@", "3", "2", "7", "6", "8", "\n">>,
      <<"(", "L", ")", "\n">>,
      <<"(", "S", "P", ")", "\n">>,
      <<"D", "=", "M", "\n">>,
      <<"0", ";", "J", "M", "P", "\n">>,
      <<"D", "=", "M", ";", "J", "G", "T", "\n">>,
      <<"D", "\n">>,
      <<"/", "/", " ", "c", "\n">>,
      <<"\n">> }

Programs ==
    UNION {[1..n -> LineAlphabet] : n \in 0..MaxLines}

Init ==
    \E file \in Programs : AsmStart(file)

Next ==
    AsmNext

Spec ==
    Init /\ [][Next]_vars

\* the assembler run on one C-instruction, in each of its textual forms
DestChars ==
    { <<>>, <<"M">>, <<"D">>, <<"M", "D">>, <<"A">>, <<"A", "M">>, <<"A", "D">>,
      <<"A", "M", "D">> }

CompChars ==
    { <<"0">>, <<"1">>, <<"-", "1">>, <<"D">>, <<"A">>, <<"!", "D">>, <<"!", "A">>,
      <<"-", "D">>, <<"-", "A">>, <<"D", "+", "1">>, <<"A", "+", "1">>,
      <<"D", "-", "1">>, <<"A", "-", "1">>, <<"D", "+", "A">>, <<"D", "-", "A">>,
      <<"A", "-", "D">>, <<"D", "&", "A">>, <<"D", "|", "A">>, <<"M">>, <<"!", "M">>,
      <<"-", "M">>, <<"M", "+", "1">>, <<"M", "-", "1">>, <<"D", "+", "M">>,
      <<"D", "-", "M">>, <<"M", "-", "D">>, <<"D", "&", "M">>, <<"D", "|", "M">> }

JumpChars ==
    { <<>>, <<"J", "G", "T">>, <<"J", "E", "Q">>, <<"J", "G", "E">>, <<"J", "L", "T">>,
      <<"J", "N", "E">>, <<"J", "L", "E">>, <<"J", "M", "P">> }

\* the text of the C-instruction (d, c, j): 'd=' and ';j' left out when null
CInstrText(d, c, j) ==
    (IF d = <<>> THEN <<>> ELSE d \o <<"=">>) \o c
        \o (IF j = <<>> THEN <<>> ELSE <<";">> \o j) \o <<"\n">>

Mnemonic(m) ==
    IF m = <<>> THEN "null" ELSE Str(m)

InitCInstr ==
    \E d \in DestChars, c \in CompChars, j \in JumpChars :
        AsmStart(<<CInstrText(d, c, j)>>)

SpecCInstr ==
    InitCInstr /\ [][Next]_vars

\* the decimal digits of n
RECURSIVE Decimal(_)
Decimal(n) ==
    IF n < 10 THEN <<Digits[n + 1]>> ELSE Decimal(n \div 10) \o <<Digits[(n % 10) + 1]>>

\* the number of distinct variables of the long program: one more than the
\* addresses 16..16383 can hold
MaxVariables == 16369

\* the program @v1, @v2, ... : each line references a new variable
ManyVariables ==
    [i \in 1..MaxVariables |-> <<"@", "v">> \o Decimal(i) \o <<"\n">>]

\* the model takes the run on the long program up where at most AllocSteps
\* of its lines are still to be assembled
AllocSteps == 128

\* the names of the variables of the long program, in order
VariableNames ==
    [i \in 1..MaxVariables |-> Str(symbol(strip(ManyVariables[i])))]

RECURSIVE AllocatedTable(_, _)
\* the bindings pass 2 adds to Assembler.symbols for lines lo..hi of the long
\* program: the i-th variable at VariableAddress(i - 1)
AllocatedTable(lo, hi) ==
    IF lo = hi THEN VariableNames[lo] :> VariableAddress(lo - 1)
    ELSE AllocatedTable(lo, (lo + hi) \div 2) @@ AllocatedTable(((lo + hi) \div 2) + 1, hi)

AllocatedAll ==
    AllocatedTable(1, MaxVariables)

\* the lines pass 2 writes for the long program
AllocatedLines ==
    [i \in 1..MaxVariables |-> "0" \o VariableAddress(i - 1) \o "\n"]

\* second_pass on the long program after its first k iterations: the parser
\* holds line k + 1, k variables are bound and k lines are written
AllocState(k) ==
    /\ asm = ManyVariables
    /\ pc = "second_pass"
    /\ file_pos = advance(ManyVariables, k).pos
    /\ hack_line = advance(ManyVariables, k).line
    /\ symbols = [s \in DOMAIN PredefinedSymbols \cup {VariableNames[i] : i \in 1..k} |->
                        IF s \in DOMAIN PredefinedSymbols THEN PredefinedSymbols[s]
                        ELSE AllocatedAll[s]]
    /\ line_count = MaxVariables
    /\ variable_count = k
    /\ hack_file = SubSeq(AllocatedLines, 1, k)
    /\ hack_file_open = TRUE
    /\ VmIdle
    /\ CpuIdle

InitAlloc ==
    \E k \in (MaxVariables - AllocSteps)..(MaxVariables - 1) : AllocState(k)

NextAlloc ==
    \/ SecondPassStep
    \/ SecondPassEnd

\* the assembler on the long program, from the states second_pass is in when
\* AllocSteps lines or fewer are left
SpecAlloc ==
    InitAlloc /\ [][NextAlloc]_vars

\* raw lines with code, comments and white space in every arrangement
SourceLines ==
    { <<"@", "7", "\n">>,
      <<"D", "=", "M", " ", "/", "/", " ", "c", "\n">>,
      <<" ", "@", "7", " ", "\n">>,
      <<"(", "L", ")", "\n">>,
      <<"/", "/", " ", "c", "\n">>,
      <<"\n">>,
      <<" ", " ", "\n">>,
      <<" ", " ", "/", "/", " ", "c", "\n">> }

InitLines ==
    \E file \in UNION {[1..n -> SourceLines] : n \in 0..MaxLines} : AsmStart(file)

\* the assembler on files of such lines
SpecLines ==
    InitLines /\ [][Next]_vars

(***************************************************************************)
(* What the claims say of an input program                                 *)
(***************************************************************************)

\* a raw line without its comment and surrounding white space
Logical(raw) ==
    strip(split(raw, <<"/", "/">>)[1])

IsAInstr(raw) ==
    Logical(raw) # <<>> /\ Head(Logical(raw)) = "@"

IsLInstr(raw) ==
    Logical(raw) # <<>> /\ Head(Logical(raw)) = "("

\* an A- or C-instruction: a C-instruction is what is neither A nor L
IsReal(raw) ==
    Logical(raw) # <<>> /\ ~IsLInstr(raw)

Operand(raw) ==
    Tail(Logical(raw))

LabelOf(raw) ==
    Str(SubSeq(Logical(raw), 2, Len(Logical(raw)) - 1))

\* the number of A- and C-instructions among the first k lines of the file
RealCount(file, k) ==
    Cardinality({i \in 1..k : IsReal(file[i])})

LabelNames(file) ==
    {LabelOf(file[i]) : i \in {k \in 1..Len(file) : IsLInstr(file[k])}}

RECURSIVE Bits(_, _)
\* the k low bits of n, most significant first
Bits(n, k) ==
    IF k = 0 THEN "" ELSE Bits(n \div 2, k - 1) \o (IF n % 2 = 1 THEN "1" ELSE "0")

\* C1: when assembly is done, the output holds one line per A- or
\* C-instruction of the input (a bare comp is a C-instruction), and none for
\* L-instructions, comments and blank lines.
C1_LineAlignment ==
    pc = "done" => Len(hack_file) = RealCount(asm, Len(asm))

\* C2: the one C-instruction (d, c, j) of the input, in whichever textual
\* form, is parsed into the fields (d, c, j) and assembled into the single
\* word 111 comp(c) dest(d) jump(j).
C2_CInstrEncoding ==
    \A d \in DestChars, c \in CompChars, j \in JumpChars :
        asm = <<CInstrText(d, c, j)>> =>
            /\ pc # "error"
            /\ pc = "second_pass" /\ has_more_lines(hack_line) =>
                    /\ dest(hack_line) = Mnemonic(d)
                    /\ Str(comp(hack_line)) = Mnemonic(c)
                    /\ jump(hack_line) = Mnemonic(j)
            /\ pc = "done" =>
                    hack_file = << "111" \o CODE_comp[Mnemonic(c)] \o CODE_dest[Mnemonic(d)]
                                       \o CODE_jump[Mnemonic(j)] \o "\n" >>

\* the line of the file the parser holds as its current line
CurrentRaw ==
    asm[file_pos]

\* C3 (step): in pass 1 an L-instruction, bound already or not, leaves the
\* ROM counter unchanged and an A- or C-instruction advances it by 1.
C3_Step ==
    pc = "first_pass" /\ has_more_lines(hack_line) =>
        line_count' = IF IsLInstr(CurrentRaw) THEN line_count ELSE line_count + 1

\* C3 (result): after pass 1 every label of the program is bound to the
\* number of A- and C-instructions before its first definition.
C3_Bound ==
    pc \in {"second_pass", "done"} =>
        \A i \in 1..Len(asm) :
            IsLInstr(asm[i]) /\ LabelOf(asm[i]) \notin DOMAIN PredefinedSymbols
                /\ (\A k \in 1..(i - 1) : IsLInstr(asm[k]) => LabelOf(asm[k]) # LabelOf(asm[i]))
            => /\ LabelOf(asm[i]) \in DOMAIN symbols
               /\ symbols[LabelOf(asm[i])] = Bits(RealCount(asm, i), 15)

\* C3: label resolution in pass 1: L-instructions never advance the ROM
\* counter, only A- and C-instructions do, so each label is bound to the
\* number of A- and C-instructions that precede it.
C3_LabelResolution ==
    [][C3_Step]_vars /\ [](C3_Bound)

\* a symbolic A-instruction operand that is neither predefined nor a label
IsVariable(file, operand) ==
    /\ ~isnumeric(operand)
    /\ Str(operand) \notin DOMAIN PredefinedSymbols
    /\ Str(operand) \notin LabelNames(file)

UsesVariable(file, i) ==
    IsAInstr(file[i]) /\ IsVariable(file, Operand(file[i]))

\* the line of the first occurrence of the operand of line i
FirstUse(file, i) ==
    CHOOSE k \in 1..i :
        /\ IsAInstr(file[k]) /\ Operand(file[k]) = Operand(file[i])
        /\ \A m \in 1..(k - 1) : ~(IsAInstr(file[m]) /\ Operand(file[m]) = Operand(file[i]))

\* n: the variable of line i is the n-th distinct variable of the file
Rank(file, i) ==
    Cardinality({k \in 1..FirstUse(file, i) : UsesVariable(file, k) /\ FirstUse(file, k) = k})

\* C4 (step): pass 2 resolves a reference to the n-th distinct variable to
\* address 16 + (n - 1), and advances the allocator at its first occurrence only.
C4_Step ==
    pc = "second_pass" /\ has_more_lines(hack_line) /\ UsesVariable(asm, file_pos) =>
        /\ hack_file' = Append(hack_file, "0" \o Bits(16 + Rank(asm, file_pos) - 1, 15) \o "\n")
        /\ variable_count' = IF FirstUse(asm, file_pos) = file_pos
                              THEN variable_count + 1 ELSE variable_count

\* C4 (state): the variables bound so far have pairwise different addresses,
\* each 16 + (n - 1).
C4_Distinct ==
    pc \in {"second_pass", "done"} =>
        \A i, k \in 1..Len(asm) :
            /\ UsesVariable(asm, i) /\ UsesVariable(asm, k)
            /\ Str(Operand(asm[i])) \in DOMAIN symbols /\ Str(Operand(asm[k])) \in DOMAIN symbols
            => /\ symbols[Str(Operand(asm[i]))] = Bits(16 + Rank(asm, i) - 1, 15)
               /\ (Operand(asm[i]) # Operand(asm[k]) =>
                        symbols[Str(Operand(asm[i]))] # symbols[Str(Operand(asm[k]))])

\* C4: variables are allocated in first-occurrence order from address 16,
\* later references resolve to the same address and do not advance the
\* allocator, and distinct variables never share an address.
C4_VariableAllocation ==
    [][C4_Step]_vars /\ [](C4_Distinct)

\* C4 witness: assembly is done for a program that referenced one variable
\* twice and then a second variable, bound to 16 and 17.
C4_Witness ==
    /\ pc = "done"
    /\ \E i, k, m \in 1..Len(asm) :
          /\ i < k /\ k < m
          /\ UsesVariable(asm, i) /\ UsesVariable(asm, k) /\ UsesVariable(asm, m)
          /\ Operand(asm[i]) = Operand(asm[k]) /\ Operand(asm[k]) # Operand(asm[m])
          /\ symbols[Str(Operand(asm[i]))] = "000000000010000"
          /\ symbols[Str(Operand(asm[m]))] = "000000000010001"
    /\ Len(hack_file) = 3

\* C10 (step): a numeric A-instruction @n emits '0' and the 15 bits of n when
\* n <= 32767, and otherwise is a fatal error that emits nothing.
C10_Step ==
    /\ pc = "second_pass" /\ has_more_lines(hack_line)
    /\ IsAInstr(asm[file_pos]) /\ isnumeric(Operand(asm[file_pos]))
    => IF int(Operand(asm[file_pos])) <= 32767
       THEN hack_file' = Append(hack_file, "0" \o Bits(int(Operand(asm[file_pos])), 15) \o "\n")
       ELSE pc' = "error" /\ hack_file' = hack_file

\* C10 (state): every line of the output is 16 characters and a line feed.
C10_Width ==
    \A i \in 1..Len(hack_file) : Len(hack_file[i]) = 17

\* C10: numeric A-instructions are emitted as 0 and 15 bits for n in
\* [0, 32767] and rejected above, so every output line is 16 characters wide.
C10_NumericRange ==
    [][C10_Step]_vars /\ [](C10_Width)

\* the first line after line pos of the file that is not empty once its
\* comment and surrounding white space are removed; 0 when there is none
NextLogical(file, pos) ==
    LET later == {i \in (pos + 1)..Len(file) : Logical(file[i]) # <<>>}
    IN  IF later = {} THEN 0 ELSE CHOOSE i \in later : \A k \in later : i <= k

\* a parser that has read pos lines comes to hold the next such line, or
\* reports the end of input when there is none
DeliversNext(pos, next, line) ==
    IF NextLogical(asm, pos) = 0 THEN ~has_more_lines(line)
    ELSE /\ next = NextLogical(asm, pos)
         /\ line = Logical(asm[NextLogical(asm, pos)])
         /\ has_more_lines(line)

\* the parser of first_pass when it is built: no iteration has run yet, as
\* each one binds a label or advances line_count
C14_First ==
    pc = "first_pass" /\ line_count = 0 /\ symbols = PredefinedSymbols
        => DeliversNext(0, file_pos, hack_line)

\* advance in either pass, and the parser of second_pass when it is built
C14_Step ==
    /\ pc \in {"first_pass", "second_pass"} /\ has_more_lines(hack_line) /\ pc' = pc
            => DeliversNext(file_pos, file_pos', hack_line')
    /\ pc = "first_pass" /\ pc' = "second_pass"
            => DeliversNext(0, file_pos', hack_line')

\* C14: the lines the parser delivers are exactly the lines of the file that
\* are non-empty without comment and surrounding white space, in file order:
\* a white-space-only line or an indented comment is skipped and does not
\* end the input.
C14_LineSourceComplete ==
    [][C14_Step]_vars /\ [](C14_First)

\* the 15-bit addresses 16..16383 a variable may be bound to
VariableSpace ==
    {Bits(a, 15) : a \in 16..16383}

\* C11 (step): every address pass 2 allocates to a variable lies in
\* [16, 16383]; when the allocator would pass 16383 the step is a fatal error
\* that binds nothing and emits nothing.
C11_Step ==
    pc = "second_pass" /\ has_more_lines(hack_line) /\ IsAInstr(CurrentRaw)
        /\ ~isnumeric(Operand(CurrentRaw)) /\ Str(Operand(CurrentRaw)) \notin DOMAIN symbols
    => IF variable_count + 16 <= 16383
       THEN /\ Str(Operand(CurrentRaw)) \in DOMAIN symbols'
            /\ symbols'[Str(Operand(CurrentRaw))] \in VariableSpace
       ELSE /\ pc' = "error"
            /\ symbols' = symbols
            /\ hack_file' = hack_file

\* C11: variables are allocated within [16, 16383] only; a program with more
\* distinct variables than fit stops with a fatal error and binds none of
\* them at or above SCREEN (16384).
C11_VariableAddressSpace ==
    [][C11_Step]_vars

(***************************************************************************)
(* VM translator: Parser tables                                            *)
(* A VM line is the sequence of its white-space separated tokens           *)
(* (vm_line.split()); a line of assembly is a record of its parts.         *)
(***************************************************************************)

COMMAND_TYPE ==
    [c \in {"add", "sub", "neg", "eq", "gt", "lt", "and", "or", "not", "push", "pop",
            "label", "goto", "if-goto", "function", "return", "call"} |->
        CASE c \in {"add", "sub", "neg", "eq", "gt", "lt", "and", "or", "not"} -> "C_ARITHMETIC"
          [] c = "push" -> "C_PUSH"
          [] c = "pop" -> "C_POP"
          [] c = "label" -> "C_LABEL"
          [] c = "goto" -> "C_GOTO"
          [] c = "if-goto" -> "C_IF"
          [] c = "function" -> "C_FUNCTION"
          [] c = "return" -> "C_RETURN"
          [] c = "call" -> "C_CALL"]

\* Parser.command_type
command_type(line) ==
    COMMAND_TYPE[line[1]]

\* Parser.arg1
arg1(line) ==
    IF command_type(line) = "C_ARITHMETIC" THEN line[1] ELSE line[2]

\* Parser.arg2
arg2(line) ==
    line[3]

\* '@symbol'
AInstr(s) ==
    [type |-> "A", symbol |-> s]

\* 'dest=comp', 'comp;jump' ("null" for the part left out)
CInstr(d, c, j) ==
    [type |-> "C", dest |-> d, comp |-> c, jump |-> j]

\* '(symbol)'
LInstr(s) ==
    [type |-> "L", symbol |-> s]

(***************************************************************************)
(* CodeWriter: tables and templates                                        *)
(***************************************************************************)

COMMAND_GROUP ==
    [c \in {"add", "sub", "and", "or", "neg", "not", "eq", "gt", "lt"} |->
        CASE c \in {"add", "sub", "and", "or"} -> "add_sub_and_or"
          [] c \in {"neg", "not"} -> "neg_not"
          [] c \in {"eq", "gt", "lt"} -> "eq_gt_lt"]

ASM_INSERT ==
    [c \in {"add", "sub", "and", "or", "neg", "not", "eq", "gt", "lt"} |->
        CASE c = "add" -> "D+M"
          [] c = "sub" -> "M-D"
          [] c = "and" -> "D&M"
          [] c = "or" -> "D|M"
          [] c = "neg" -> "-M"
          [] c = "not" -> "!M"
          [] c = "eq" -> "JEQ"
          [] c = "gt" -> "JGT"
          [] c = "lt" -> "JLT"]

\* MATH_LOGIC_TEMPLATE with 'insert' and 'index' replaced
MATH_LOGIC_TEMPLATE(group, insert, index) ==
    CASE group = "add_sub_and_or" ->
            << AInstr("SP"),
               CInstr("AM", "M-1", "null"),
               CInstr("D", "M", "null"),
               CInstr("A", "A-1", "null"),
               CInstr("M", insert, "null") >>
      [] group = "neg_not" ->
            << AInstr("SP"),
               CInstr("A", "M-1", "null"),
               CInstr("M", insert, "null") >>
      [] group = "eq_gt_lt" ->
            << AInstr("SP"),
               CInstr("AM", "M-1", "null"),
               CInstr("D", "M", "null"),
               CInstr("A", "A-1", "null"),
               CInstr("D", "M-D", "null"),
               AInstr("TRUE." \o index),
               CInstr("null", "D", insert),
               CInstr("D", "0", "null"),
               AInstr("CONT." \o index),
               CInstr("null", "0", "JMP"),
               LInstr("TRUE." \o index),
               CInstr("D", "-1", "null"),
               LInstr("CONT." \o index),
               AInstr("SP"),
               CInstr("A", "M-1", "null"),
               CInstr("M", "D", "null") >>

SEGMENT_GROUPS ==
    [g \in {"argument", "local", "this", "that", "temp", "static", "constant", "pointer"} |->
        CASE g \in {"argument", "local", "this", "that", "temp"} -> "argument_local_this_that_temp"
          [] g \in {"static", "pointer"} -> "static_pointer"
          [] g = "constant" -> "constant"]

\* the keys of PUSH_POP_TEMPLATE
PUSH_POP_KEYS ==
    { <<"C_PUSH", "argument_local_this_that_temp">>, <<"C_POP", "argument_local_this_that_temp">>,
      <<"C_PUSH", "static_pointer">>, <<"C_POP", "static_pointer">>, <<"C_PUSH", "constant">> }

\* PUSH_POP_TEMPLATE with 'address', 'computation' and 'index' replaced
PUSH_POP_TEMPLATE(key, address, computation, index) ==
    CASE key = <<"C_PUSH", "argument_local_this_that_temp">> ->
            << AInstr(address),
               CInstr("D", computation, "null"),
               AInstr(index),
               CInstr("A", "D+A", "null"),
               CInstr("D", "M", "null"),
               AInstr("SP"),
               CInstr("M", "M+1", "null"),
               CInstr("A", "M-1", "null"),
               CInstr("M", "D", "null") >>
      [] key = <<"C_POP", "argument_local_this_that_temp">> ->
            << AInstr(address),
               CInstr("D", computation, "null"),
               AInstr(index),
               CInstr("D", "D+A", "null"),
               AInstr("SP"),
               CInstr("AM", "M-1", "null"),
               CInstr("D", "D+M", "null"),
               CInstr("A", "D-M", "null"),
               CInstr("M", "D-A", "null") >>
      [] key = <<"C_PUSH", "static_pointer">> ->
            << AInstr(address),
               CInstr("D", "M", "null"),
               AInstr("SP"),
               CInstr("M", "M+1", "null"),
               CInstr("A", "M-1", "null"),
               CInstr("M", "D", "null") >>
      [] key = <<"C_POP", "static_pointer">> ->
            << AInstr("SP"),
               CInstr("AM", "M-1", "null"),
               CInstr("D", "M", "null"),
               AInstr(address),
               CInstr("M", "D", "null") >>
      [] key = <<"C_PUSH", "constant">> ->
            << AInstr(index),
               CInstr("D", "A", "null"),
               AInstr("SP"),
               CInstr("M", "M+1", "null"),
               CInstr("A", "M-1", "null"),
               CInstr("M", "D", "null") >>

\* the bases of argument and local exchanged
BaseAddressSwapped ==
    [g \in {"argument", "local", "this", "that", "temp"} |->
        CASE g = "argument" -> "LCL"
          [] g = "local" -> "ARG"
          [] g = "this" -> "THIS"
          [] g = "that" -> "THAT"
          [] g = "temp" -> "5"]

BASE_ADDRESS ==
    [g \in {"argument", "local", "this", "that", "temp"} |->
        CASE g = "argument" -> "ARG"
          [] g = "local" -> "LCL"
          [] g = "this" -> "THIS"
          [] g = "that" -> "THAT"
          [] g = "temp" -> "5"]

POINTER_ADDRESS ==
    [i \in {"0", "1"} |-> IF i = "0" THEN "THIS" ELSE "THAT"]

END_LOOP ==
    << LInstr("END_LOOP"),
       AInstr("END_LOOP"),
       CInstr("null", "0", "JMP") >>

(***************************************************************************)
(* CodeWriter: methods.  Each takes the object and returns it as the call  *)
(* leaves it; asm_file is the text written so far.                         *)
(***************************************************************************)

\* asm_file.write(asm_code)
write(w, asm_code) ==
    [w EXCEPT !.asm_file = @ \o asm_code]

\* int(token) of a decimal token
MaxInt == 8

int_token(token) ==
    CHOOSE n \in 0..MaxInt : ToString(n) = token

\* CodeWriter.set_filename: the base name of the path without its last 3 characters
set_filename(w, full_path) ==
    LET basename == full_path[Len(full_path)]
    IN  [w EXCEPT !.filename = Str(SubSeq(basename, 1, Len(basename) - 3))]

\* the static symbol of write_push_pop, line 271
StaticSymbolBare(filename, index) ==
    "static." \o index

StaticSymbol(filename, index) ==
    filename \o "." \o index

\* write_push_pop raises KeyError
push_pop_raises(command, segment, index) ==
    \/ segment \notin DOMAIN SEGMENT_GROUPS
    \/ <<command, SEGMENT_GROUPS[segment]>> \notin PUSH_POP_KEYS
    \/ segment = "pointer" /\ index \notin DOMAIN POINTER_ADDRESS

\* CodeWriter.write_push_pop
write_push_pop(w, command, segment, index) ==
    LET segment_group == SEGMENT_GROUPS[segment]
        key == <<command, segment_group>>
    IN  IF segment_group = "argument_local_this_that_temp"
        THEN write(w, PUSH_POP_TEMPLATE(key, BASE_ADDRESS[segment],
                                        IF segment = "temp" THEN "A" ELSE "M", index))
        ELSE IF segment = "static"
        THEN write(w, PUSH_POP_TEMPLATE(key, StaticSymbol(w.filename, index), "computation", "index"))
        ELSE IF segment = "constant"
        THEN write(w, PUSH_POP_TEMPLATE(key, "address", "computation", index))
        ELSE write(w, PUSH_POP_TEMPLATE(key, POINTER_ADDRESS[index], "computation", "index"))

\* CodeWriter.write_arithmetic
write_arithmetic(w, command) ==
    LET command_group == COMMAND_GROUP[command]
        asm_code == MATH_LOGIC_TEMPLATE(command_group, ASM_INSERT[command], ToString(w.symbol_index))
    IN  IF command_group = "eq_gt_lt"
        THEN [write(w, asm_code) EXCEPT !.symbol_index = @ + 1]
        ELSE write(w, asm_code)

\* CodeWriter.write_label
write_label(w, label) ==
    write(w, << LInstr(w.function_name \o "$" \o label) >>)

\* CodeWriter.write_goto
write_goto(w, label) ==
    write(w, << AInstr(w.function_name \o "$" \o label),
                CInstr("null", "0", "JMP") >>)

\* CodeWriter.write_if
write_if(w, label) ==
    write(w, << AInstr("SP"),
                CInstr("AM", "M-1", "null"),
                CInstr("D", "M", "null"),
                AInstr(w.function_name \o "$" \o label),
                CInstr("null", "D", "JNE") >>)

RECURSIVE repeat(_, _)
\* code repeated n times
repeat(code, n) ==
    IF n <= 0 THEN <<>> ELSE code \o repeat(code, n - 1)

\* CodeWriter.write_function
write_function(w, function_name, n_vars) ==
    [write(w, << LInstr(function_name) >>
              \o repeat(PUSH_POP_TEMPLATE(<<"C_PUSH", "constant">>, "address", "computation", "0"),
                        int_token(n_vars)))
     EXCEPT !.function_name = function_name]

\* a push of the address of the register in place of its value
PushRegisterAddress(symbol_name) ==
    << AInstr(symbol_name),
       CInstr("D", "A", "null"),
       AInstr("SP"),
       CInstr("M", "M+1", "null"),
       CInstr("A", "M-1", "null"),
       CInstr("M", "D", "null") >>

\* 'push' of the value of register symbol in write_call
PushRegister(symbol_name) ==
    << AInstr(symbol_name),
       CInstr("D", "M", "null"),
       AInstr("SP"),
       CInstr("M", "M+1", "null"),
       CInstr("A", "M-1", "null"),
       CInstr("M", "D", "null") >>

\* a call-site index that starts again at every call
NextCallIndexReset(call_index, function_name) ==
    0

\* write_call, lines 326-329: the call-site index of this call
next_call_index(call_index, function_name) ==
    IF function_name \in DOMAIN call_index THEN call_index[function_name] + 1 ELSE 0

\* CodeWriter.write_call
write_call(w, function_name, n_args) ==
    LET index == next_call_index(w.call_index, function_name)
        return_address == function_name \o "$ret." \o ToString(index)
        asm_code ==
            << AInstr(return_address),
               CInstr("D", "A", "null"),
               AInstr("SP"),
               CInstr("M", "M+1", "null"),
               CInstr("A", "M-1", "null"),
               CInstr("M", "D", "null") >>
            \o PushRegister("LCL")
            \o PushRegister("ARG")
            \o PushRegister("THIS")
            \o PushRegister("THAT")
            \o << AInstr("SP"),
                  CInstr("D", "M", "null"),
                  AInstr("5"),
                  CInstr("D", "D-A", "null"),
                  AInstr(n_args),
                  CInstr("D", "D-A", "null"),
                  AInstr("ARG"),
                  CInstr("M", "D", "null"),
                  AInstr("SP"),
                  CInstr("D", "M", "null"),
                  AInstr("LCL"),
                  CInstr("M", "D", "null"),
                  AInstr(function_name),
                  CInstr("null", "0", "JMP"),
                  LInstr(return_address) >>
    IN  [write(w, asm_code) EXCEPT
            !.call_index = [f \in DOMAIN @ \cup {function_name} |->
                                IF f = function_name THEN index ELSE @[f]]]

\* 'X = *(frame - 1)' with the frame pointer in R13 stepped down, in write_return
RestoreRegister(symbol_name) ==
    << AInstr("R13"),
       CInstr("AM", "M-1", "null"),
       CInstr("D", "M", "null"),
       AInstr(symbol_name),
       CInstr("M", "D", "null") >>

\* write_return, lines 385-393: frame and return address are saved first
SaveFrame ==
    << AInstr("LCL"),
       CInstr("D", "M", "null"),
       AInstr("R13"),
       CInstr("M", "D", "null"),
       AInstr("5"),
       CInstr("A", "D-A", "null"),
       CInstr("D", "M", "null"),
       AInstr("R14"),
       CInstr("M", "D", "null") >>

\* write_return, lines 394-402: *ARG = pop(), SP = ARG + 1
PlaceReturnValue ==
    << AInstr("SP"),
       CInstr("AM", "M-1", "null"),
       CInstr("D", "M", "null"),
       AInstr("ARG"),
       CInstr("A", "M", "null"),
       CInstr("M", "D", "null"),
       CInstr("D", "A", "null"),
       AInstr("SP"),
       CInstr("M", "D+1", "null") >>

\* the return sequence with the return address read after the return value
\* is stored
ReturnCodeLate ==
    << AInstr("LCL"),
       CInstr("D", "M", "null"),
       AInstr("R13"),
       CInstr("M", "D", "null") >>
    \o PlaceReturnValue
    \o << AInstr("R13"),
          CInstr("D", "M", "null"),
          AInstr("5"),
          CInstr("A", "D-A", "null"),
          CInstr("D", "M", "null"),
          AInstr("R14"),
          CInstr("M", "D", "null") >>
    \o RestoreRegister("THAT")
    \o RestoreRegister("THIS")
    \o RestoreRegister("ARG")
    \o RestoreRegister("LCL")
    \o << AInstr("R14"),
          CInstr("A", "M", "null"),
          CInstr("null", "0", "JMP") >>

\* the assembly of write_return
ReturnCode ==
    SaveFrame
    \o PlaceReturnValue
    \o RestoreRegister("THAT")
    \o RestoreRegister("THIS")
    \o RestoreRegister("ARG")
    \o RestoreRegister("LCL")
    \o << AInstr("R14"),
          CInstr("A", "M", "null"),
          CInstr("null", "0", "JMP") >>

\* CodeWriter.write_return
write_return(w) ==
    write(w, ReturnCode)

\* CodeWriter.write_bootstrap
write_bootstrap(w) ==
    write_call(write(w, << AInstr("256"),
                           CInstr("D", "A", "null"),
                           AInstr("SP"),
                           CInstr("M", "D", "null") >>),
               "Sys.init", "0")

\* CodeWriter.__init__ without the bootstrap, for an argument that is a
\* file (single) or a directory
NewCodeWriter(single) ==
    [is_single_file |-> single,
     asm_file |-> <<>>,
     filename |-> "None",
     function_name |-> "None",
     symbol_index |-> 0,
     call_index |-> <<>>,
     asm_file_open |-> TRUE]

\* __init__ that never writes the bootstrap
CodeWriterNoBootstrap(single) ==
    NewCodeWriter(single)

\* CodeWriter.__init__
CodeWriter(single) ==
    IF ~single THEN write_bootstrap(NewCodeWriter(single)) ELSE NewCodeWriter(single)

\* CodeWriter.close
close(w) ==
    [(IF w.is_single_file THEN write(w, END_LOOP) ELSE w) EXCEPT !.asm_file_open = FALSE]

\* the body of the loop of VMTranslator.translate for one parsed line
translate_line(w, line) ==
    LET type == command_type(line)
    IN  CASE type \in {"C_PUSH", "C_POP"} -> write_push_pop(w, type, arg1(line), arg2(line))
          [] type = "C_ARITHMETIC" -> write_arithmetic(w, arg1(line))
          [] type = "C_LABEL" -> write_label(w, arg1(line))
          [] type = "C_GOTO" -> write_goto(w, arg1(line))
          [] type = "C_IF" -> write_if(w, arg1(line))
          [] type = "C_FUNCTION" -> write_function(w, arg1(line), arg2(line))
          [] type = "C_CALL" -> write_call(w, arg1(line), arg2(line))
          [] type = "C_RETURN" -> write_return(w)

(***************************************************************************)
(* VMTranslator: the driver.  The input is read as it is translated: each  *)
(* action is one pass through the loop of translate, for a line of the     *)
(* alphabet; vm_input records the lines read and where their code lies in  *)
(* the output.                                                             *)
(***************************************************************************)

MaxCommands == 3

MaxFiles == 2

\* the directory given as argument, and the .vm files it may hold
Directory == <<"d">>

VmFiles ==
    { <<"A", ".", "v", "m">>, <<"B", ".", "v", "m">> }

PushPopLines ==
    { <<"push", "static", "0">>, <<"pop", "static", "1">>, <<"push", "constant", "7">>,
      <<"pop", "constant", "0">> }

ArithmeticLines ==
    { <<"add">>, <<"neg">>, <<"eq">> }

LabelLines ==
    { <<"label", "L">>, <<"label", "ret.0">> }

GotoLines ==
    { <<"goto", "L">> }

IfLines ==
    { <<"if-goto", "L">> }

FunctionLines ==
    { <<"function", "f", "1">>, <<"function", "TRUE.0", "0">> }

CallLines ==
    { <<"call", "f", "0">> }

ReturnLines ==
    { <<"return">> }

\* VMTranslator.__init__ up to the choice of the first file
VmStart(single) ==
    /\ cw = CodeWriter(single)
    /\ vm_pc = "listing"
    /\ translated = {}
    /\ vm_file = <<>>
    /\ vm_input = <<>>

\* the record of a translated line
Read(line, w) ==
    [file |-> vm_file, line |-> line, from |-> Len(cw.asm_file), to |-> Len(w.asm_file)]

\* the loop body of translate for a line: the code is written, or the
\* KeyError of write_push_pop ends the program; nothing catches it, so
\* code_writer.close() is not called
TranslateLine(line) ==
    /\ Len(vm_input) < MaxCommands
    /\ IF command_type(line) \in {"C_PUSH", "C_POP"}
          /\ push_pop_raises(command_type(line), arg1(line), arg2(line))
       THEN /\ vm_pc' = "error"
            /\ UNCHANGED <<cw, vm_input>>
       ELSE /\ cw' = translate_line(cw, line)
            /\ vm_input' = Append(vm_input, Read(line, translate_line(cw, line)))
            /\ UNCHANGED vm_pc
    /\ UNCHANGED <<translated, vm_file>>
    /\ UNCHANGED <<asmVars, cpuVars>>

\* VMTranslator.translate starts on a file: the one file of single-file
\* mode, or the next .vm entry of the directory
Translate ==
    /\ vm_pc = "listing"
    /\ cw.is_single_file => translated = {}
    /\ Cardinality(translated) < MaxFiles
    /\ \E file \in VmFiles \ translated :
        /\ vm_file' = (IF cw.is_single_file THEN <<file>> ELSE <<Directory, file>>)
        /\ cw' = set_filename(cw, vm_file')
        /\ translated' = translated \cup {file}
    /\ vm_pc' = "translate"
    /\ UNCHANGED vm_input
    /\ UNCHANGED <<asmVars, cpuVars>>

WritePushPop ==
    /\ vm_pc = "translate"
    /\ \E line \in PushPopLines : TranslateLine(line)

WriteArithmetic ==
    /\ vm_pc = "translate"
    /\ \E line \in ArithmeticLines : TranslateLine(line)

WriteLabel ==
    /\ vm_pc = "translate"
    /\ \E line \in LabelLines : TranslateLine(line)

WriteGoto ==
    /\ vm_pc = "translate"
    /\ \E line \in GotoLines : TranslateLine(line)

WriteIf ==
    /\ vm_pc = "translate"
    /\ \E line \in IfLines : TranslateLine(line)

WriteFunction ==
    /\ vm_pc = "translate"
    /\ \E line \in FunctionLines : TranslateLine(line)

WriteCall ==
    /\ vm_pc = "translate"
    /\ \E line \in CallLines : TranslateLine(line)

WriteReturn ==
    /\ vm_pc = "translate"
    /\ \E line \in ReturnLines : TranslateLine(line)

\* has_more_lines returns False: translate returns
EndOfFile ==
    /\ vm_pc = "translate"
    /\ vm_pc' = "listing"
    /\ UNCHANGED <<cw, translated, vm_file, vm_input>>
    /\ UNCHANGED <<asmVars, cpuVars>>

\* the files are translated: code_writer.close()
Close ==
    /\ vm_pc = "listing"
    /\ cw.is_single_file => translated # {}
    /\ cw' = close(cw)
    /\ vm_pc' = "closed"
    /\ UNCHANGED <<translated, vm_file, vm_input>>
    /\ UNCHANGED <<asmVars, cpuVars>>

VmNext ==
    \/ Translate
    \/ WritePushPop
    \/ WriteArithmetic
    \/ WriteLabel
    \/ WriteGoto
    \/ WriteIf
    \/ WriteFunction
    \/ WriteCall
    \/ WriteReturn
    \/ EndOfFile
    \/ Close

InitVM ==
    /\ \E single \in BOOLEAN : VmStart(single)
    /\ AsmIdle
    /\ CpuIdle

SpecVM ==
    InitVM /\ [][VmNext]_vars

\* push and pop commands of the segments whose index or direction is limited
MemoryLines ==
    { <<c, g, i>> : c \in {"push", "pop"}, g \in {"constant", "temp", "pointer"},
                    i \in {"0", "1", "7", "8"} }

WriteMemory ==
    /\ vm_pc = "translate"
    /\ \E line \in MemoryLines : TranslateLine(line)

NextMemory ==
    \/ Translate
    \/ WriteMemory
    \/ EndOfFile
    \/ Close

\* the translator on units of push and pop commands
SpecMemory ==
    InitVM /\ [][NextMemory]_vars

\* comparisons and calls, with the commands between which the counters
\* must carry on
CountedLines ==
    { <<"eq">>, <<"lt">>, <<"add">>, <<"function", "f", "1">>, <<"call", "f", "0">>,
      <<"call", "Sys.init", "0">> }

WriteCounted ==
    /\ vm_pc = "translate"
    /\ \E line \in CountedLines : TranslateLine(line)

NextCounters ==
    \/ Translate
    \/ WriteCounted
    \/ EndOfFile
    \/ Close

\* the translator on units of comparisons and calls
SpecCounters ==
    InitVM /\ [][NextCounters]_vars

InitTranslators ==
    Init \/ InitVM

NextTranslators ==
    AsmNext \/ VmNext

\* a run of the assembler or a run of the VM translator
SpecTranslators ==
    InitTranslators /\ [][NextTranslators]_vars

(***************************************************************************)
(* What the claims say of a translation unit                               *)
(***************************************************************************)

\* the label definitions '(X)' of the output, by position
LabelDefinitions ==
    {i \in 1..Len(cw.asm_file) : cw.asm_file[i].type = "L"}

\* the function a line of the input lies in: the last 'function' line before
\* it in its file, 0 when there is none
EnclosingFunction(k) ==
    LET before == {m \in 1..(k - 1) : /\ vm_input[m].file = vm_input[k].file
                                      /\ vm_input[m].line[1] = "function"}
    IN  IF before = {} THEN 0 ELSE CHOOSE m \in before : \A n \in before : n <= m

\* function names are unique in the unit
UniqueFunctionNames ==
    \A k, m \in 1..Len(vm_input) :
        /\ vm_input[k].line[1] = "function" /\ vm_input[m].line[1] = "function"
        /\ vm_input[k].line[2] = vm_input[m].line[2]
        => k = m

\* label names are unique within each function of each file
UniqueLabelNames ==
    \A k, m \in 1..Len(vm_input) :
        /\ vm_input[k].line[1] = "label" /\ vm_input[m].line[1] = "label"
        /\ vm_input[k].line[2] = vm_input[m].line[2]
        /\ vm_input[k].file = vm_input[m].file
        /\ EnclosingFunction(k) = EnclosingFunction(m)
        => k = m

\* C7: in a unit whose function names are unique and whose label names are
\* unique within each function, no two label definitions of the output are
\* the same, whatever their kinds (function entry, branch, TRUE.k / CONT.k,
\* g$ret.k, END_LOOP).
C7_LabelUniqueness ==
    UniqueFunctionNames /\ UniqueLabelNames =>
        \A i, k \in LabelDefinitions :
            cw.asm_file[i].symbol = cw.asm_file[k].symbol => i = k

\* the code written for line k of the input
CodeOf(k) ==
    SubSeq(cw.asm_file, vm_input[k].from + 1, vm_input[k].to)

\* the symbols that the A-instructions of a piece of code refer to
SymbolsOf(code) ==
    {code[i].symbol : i \in {n \in 1..Len(code) : code[n].type = "A"}}

StaticLines ==
    {k \in 1..Len(vm_input) : /\ vm_input[k].line[1] \in {"push", "pop"}
                              /\ vm_input[k].line[2] = "static"}

RECURSIVE join(_, _)
\* the pieces but the last, joined by sep
join(pieces, sep) ==
    IF Len(pieces) <= 1 THEN ""
    ELSE IF Len(pieces) = 2 THEN Str(pieces[1])
    ELSE Str(pieces[1]) \o sep \o join(Tail(pieces), sep)

\* the module of a file: its name up to the last '.'
Module(file) ==
    join(split(file[Len(file)], <<".">>), ".")

\* C8: the code of a push or pop of static i in a file of module M refers
\* to the symbol M.i (and to SP), so two static accesses of the unit refer
\* to the same symbol exactly when they are in the same module with the
\* same index.
C8_StaticIsolation ==
    /\ \A k \in StaticLines :
          SymbolsOf(CodeOf(k)) = {"SP", Module(vm_input[k].file) \o "." \o vm_input[k].line[3]}
    /\ \A k, m \in StaticLines :
          (SymbolsOf(CodeOf(k)) = SymbolsOf(CodeOf(m)))
              <=> /\ Module(vm_input[k].file) = Module(vm_input[m].file)
                  /\ vm_input[k].line[3] = vm_input[m].line[3]

\* C8 witness: the unit is translated, with static accesses in two modules
\* and two static accesses of one module.
C8_Witness ==
    /\ vm_pc = "closed"
    /\ \E k, m \in StaticLines : vm_input[k].file # vm_input[m].file
    /\ \E k, m \in StaticLines : k # m /\ vm_input[k].file = vm_input[m].file

\* 'SP = 256'
SetSP256 ==
    << AInstr("256"), CInstr("D", "A", "null"), AInstr("SP"), CInstr("M", "D", "null") >>

\* the code of 'call Sys.init 0' at the first call site of Sys.init
CallSysInit ==
    << AInstr("Sys.init$ret.0"), CInstr("D", "A", "null") >>
    \o << AInstr("SP"), CInstr("M", "M+1", "null"), CInstr("A", "M-1", "null"), CInstr("M", "D", "null") >>
    \o PushRegister("LCL") \o PushRegister("ARG") \o PushRegister("THIS") \o PushRegister("THAT")
    \o << AInstr("SP"), CInstr("D", "M", "null"), AInstr("5"), CInstr("D", "D-A", "null"),
          AInstr("0"), CInstr("D", "D-A", "null"), AInstr("ARG"), CInstr("M", "D", "null"),
          AInstr("SP"), CInstr("D", "M", "null"), AInstr("LCL"), CInstr("M", "D", "null"),
          AInstr("Sys.init"), CInstr("null", "0", "JMP"), LInstr("Sys.init$ret.0") >>

StartsWith(code, prefix) ==
    Len(code) >= Len(prefix) /\ SubSeq(code, 1, Len(prefix)) = prefix

EndsWith(code, suffix) ==
    Len(code) >= Len(suffix) /\ SubSeq(code, Len(code) - Len(suffix) + 1, Len(code)) = suffix

InfiniteLoop ==
    << LInstr("END_LOOP"), AInstr("END_LOOP"), CInstr("null", "0", "JMP") >>

\* C9: in directory mode the output starts with SP = 256 and the code of
\* 'call Sys.init 0', before the code of any module, and once closed does
\* not end with the infinite loop; in single-file mode the output does not
\* start with the bootstrap and once closed ends with the infinite loop.
C9_BootstrapByMode ==
    IF cw.is_single_file
       THEN /\ ~StartsWith(cw.asm_file, SetSP256)
            /\ vm_pc = "closed" => EndsWith(cw.asm_file, InfiniteLoop)
       ELSE /\ StartsWith(cw.asm_file, SetSP256 \o CallSysInit)
            /\ \A k \in 1..Len(vm_input) : vm_input[k].from >= Len(SetSP256 \o CallSysInit)
            /\ vm_pc = "closed" => ~EndsWith(cw.asm_file, InfiniteLoop)

\* C9 witness: a directory of two modules has been translated and closed,
\* with code after the bootstrap.
C9_Witness ==
    /\ vm_pc = "closed"
    /\ ~cw.is_single_file
    /\ Len(vm_input) >= 2
    /\ Cardinality(translated) = 2

\* The output file after a fatal error.  Neither program has code that
\* removes its output or marks it as failed, so the file left behind holds
\* the lines written before the error and nothing else: a non-empty one is
\* an unflagged proper prefix of the translation.
UnflaggedPrefix(lines) ==
    lines # <<>>

\* C13: when either translator has stopped at a fatal error raised after
\* some output was written, its output stream has been closed and the
\* output file is not left as an unflagged proper prefix of the translation.
C13_NoSilentPartialOutput ==
    /\ pc = "error" /\ hack_file # <<>> =>
            ~hack_file_open /\ ~UnflaggedPrefix(hack_file)
    /\ vm_pc = "error" /\ cw.asm_file # <<>> =>
            ~cw.asm_file_open /\ ~UnflaggedPrefix(cw.asm_file)

\* a memory command the VM language forbids
IllegalMemoryCommand(line) ==
    \/ line[1] = "pop" /\ line[2] = "constant"
    \/ line[2] = "temp" /\ int_token(line[3]) \notin 0..7
    \/ line[2] = "pointer" /\ int_token(line[3]) \notin {0, 1}

\* C12: pop constant, temp i with i outside 0..7 and pointer i with i outside
\* {0, 1} abort the translation and emit nothing: no such command is among
\* the translated lines, each of which has its code in the output.
C12_IllegalMemoryRejected ==
    \A k \in 1..Len(vm_input) :
        vm_input[k].line[1] \in {"push", "pop"} => ~IllegalMemoryCommand(vm_input[k].line)

\* the lines of the unit that are comparisons, and those that call g
Comparisons ==
    {k \in 1..Len(vm_input) : vm_input[k].line[1] \in {"eq", "gt", "lt"}}

CallsOf(g) ==
    {k \in 1..Len(vm_input) : vm_input[k].line[1] = "call" /\ vm_input[k].line[2] = g}

Callees ==
    {"f", "Sys.init"}

\* the call of the bootstrap code, written in directory mode
BootstrapCalls(g) ==
    IF g = "Sys.init" /\ ~cw.is_single_file THEN 1 ELSE 0

\* the call-site counter of g: the number of calls of g translated so far
CallCounter(w, g) ==
    IF g \in DOMAIN w.call_index THEN w.call_index[g] + 1 ELSE 0

\* the line a step translates, <<>> when it translates none
Translated ==
    IF Len(vm_input') = Len(vm_input) + 1 THEN vm_input'[Len(vm_input')].line ELSE <<>>

\* C17 (step): the comparison counter goes up by 1 at eq, gt, lt and the
\* call-site counter of g by 1 at 'call g'; no other step changes them.
C17_Step ==
    /\ cw'.symbol_index = cw.symbol_index
            + (IF Translated # <<>> /\ Translated[1] \in {"eq", "gt", "lt"} THEN 1 ELSE 0)
    /\ \A g \in Callees :
            CallCounter(cw', g) = CallCounter(cw, g)
                + (IF Translated # <<>> /\ Translated[1] = "call" /\ Translated[2] = g
                   THEN 1 ELSE 0)

\* C17 (state): the k-th comparison of the unit defines TRUE.(k-1) and
\* CONT.(k-1), and the k-th call of g, the call of the bootstrap code
\* counted, defines g$ret.(k-1).
C17_Labels ==
    /\ cw.symbol_index = Cardinality(Comparisons)
    /\ \A k \in Comparisons :
          LET n == Cardinality({m \in Comparisons : m < k})
          IN  {l.symbol : l \in {c \in {CodeOf(k)[i] : i \in 1..Len(CodeOf(k))} : c.type = "L"}}
                    = {"TRUE." \o ToString(n), "CONT." \o ToString(n)}
    /\ \A g \in Callees :
          /\ CallCounter(cw, g) = Cardinality(CallsOf(g)) + BootstrapCalls(g)
          /\ \A k \in CallsOf(g) :
                LET n == Cardinality({m \in CallsOf(g) : m < k}) + BootstrapCalls(g)
                IN  {l.symbol : l \in {c \in {CodeOf(k)[i] : i \in 1..Len(CodeOf(k))} : c.type = "L"}}
                        = {g \o "$ret." \o ToString(n)}

\* C17: the comparison counter and the call-site counters are never reset
\* within a translation unit, neither at a function command nor at a change
\* of module.
C17_CountersNeverReset ==
    [][C17_Step]_vars /\ [](C17_Labels)

\* C17 witness: a comparison in one module, then a function command and a
\* second comparison in another module, which defines TRUE.1; the unit's
\* call of Sys.init comes second to that of the bootstrap code.
C17_Witness ==
    /\ Len(vm_input) = 3
    /\ vm_input[1].line = <<"eq">>
    /\ vm_input[2].line \in {<<"function", "f", "1">>, <<"call", "Sys.init", "0">>}
    /\ vm_input[3].line = <<"lt">>
    /\ vm_input[1].file # vm_input[3].file
    /\ cw.symbol_index = 2
    /\ LInstr("TRUE.1") \in {CodeOf(3)[i] : i \in 1..Len(CodeOf(3))}
    /\ vm_input[2].line[1] = "call" =>
            LInstr("Sys.init$ret.1") \in {CodeOf(2)[i] : i \in 1..Len(CodeOf(2))}

(***************************************************************************)
(* The Hack machine that runs the emitted code (spec sections 3, 6.2, 6.4  *)
(* and glossary): registers A and D, M = RAM[A], 16-bit words, and the     *)
(* loader's resolution of symbols.                                         *)
(***************************************************************************)

Word == 2 ^ 16

Signed(v) ==
    IF v >= 2 ^ 15 THEN v - Word ELSE v

RECURSIVE BitAnd(_, _, _)
BitAnd(x, y, k) ==
    IF k = 0 THEN 0 ELSE (x % 2) * (y % 2) + 2 * BitAnd(x \div 2, y \div 2, k - 1)

\* the value of a comp mnemonic over D and A (x is D, y is A)
Alu(c, x, y) ==
    CASE c = "0" -> 0
      [] c = "1" -> 1
      [] c = "-1" -> Word - 1
      [] c = "D" -> x
      [] c = "A" -> y
      [] c = "!D" -> Word - 1 - x
      [] c = "!A" -> Word - 1 - y
      [] c = "-D" -> (0 - x) % Word
      [] c = "-A" -> (0 - y) % Word
      [] c = "D+1" -> (x + 1) % Word
      [] c = "A+1" -> (y + 1) % Word
      [] c = "D-1" -> (x - 1) % Word
      [] c = "A-1" -> (y - 1) % Word
      [] c = "D+A" -> (x + y) % Word
      [] c = "D-A" -> (x - y) % Word
      [] c = "A-D" -> (y - x) % Word
      [] c = "D&A" -> BitAnd(x, y, 16)
      [] c = "D|A" -> x + y - BitAnd(x, y, 16)

\* the comp mnemonics that read M, and the mnemonic over A each stands for
MemoryComp ==
    [c \in {"M", "!M", "-M", "M+1", "M-1", "D+M", "D-M", "M-D", "D&M", "D|M"} |->
        CASE c = "M" -> "A"
          [] c = "!M" -> "!A"
          [] c = "-M" -> "-A"
          [] c = "M+1" -> "A+1"
          [] c = "M-1" -> "A-1"
          [] c = "D+M" -> "D+A"
          [] c = "D-M" -> "D-A"
          [] c = "M-D" -> "A-D"
          [] c = "D&M" -> "D&A"
          [] c = "D|M" -> "D|A"]

\* whether the jump of a C-instruction is taken on the value v
Jumps(j, v) ==
    CASE j = "null" -> FALSE
      [] j = "JGT" -> Signed(v) > 0
      [] j = "JEQ" -> v = 0
      [] j = "JGE" -> Signed(v) >= 0
      [] j = "JLT" -> Signed(v) < 0
      [] j = "JNE" -> v # 0
      [] j = "JLE" -> Signed(v) <= 0
      [] j = "JMP" -> TRUE

\* the registers a dest mnemonic names
Writes(d, register) ==
    CASE register = "A" -> d \in {"A", "AM", "AD", "AMD"}
      [] register = "D" -> d \in {"D", "MD", "AD", "AMD"}
      [] register = "M" -> d \in {"M", "MD", "AM", "AMD"}

\* the addresses of the predefined symbols
PredefinedAddress ==
    [s \in {"SP", "LCL", "ARG", "THIS", "THAT", "R13", "R14", "R15", "SCREEN", "KBD"} |->
        CASE s = "SP" -> 0
          [] s = "LCL" -> 1
          [] s = "ARG" -> 2
          [] s = "THIS" -> 3
          [] s = "THAT" -> 4
          [] s = "R13" -> 13
          [] s = "R14" -> 14
          [] s = "R15" -> 15
          [] s = "SCREEN" -> 16384
          [] s = "KBD" -> 24576]

\* the decimal tokens the programs use
MaxNumber == 300

IsNumber(token) ==
    \E n \in 0..MaxNumber : ToString(n) = token

NumberOf(token) ==
    CHOOSE n \in 0..MaxNumber : ToString(n) = token

\* the ROM address of each label of a program: the number of instructions
\* before its first definition
LabelAddresses(code) ==
    LET defs == {i \in 1..Len(code) : code[i].type = "L"}
        first(s) == CHOOSE i \in defs : code[i].symbol = s
                        /\ \A k \in defs : code[k].symbol = s => i <= k
    IN  [s \in {code[i].symbol : i \in defs} |->
            Cardinality({k \in 1..first(s) : code[k].type # "L"})]

\* the address a symbol of an A-instruction stands for: a number, a
\* predefined symbol, a label, or else a variable, allocated from 16 on
Resolve(code, labels, s) ==
    IF IsNumber(s) THEN NumberOf(s)
    ELSE IF s \in DOMAIN PredefinedAddress THEN PredefinedAddress[s]
    ELSE IF s \in DOMAIN labels THEN labels[s]
    ELSE LET isVar(i) == /\ code[i].type = "A" /\ ~IsNumber(code[i].symbol)
                         /\ code[i].symbol \notin DOMAIN PredefinedAddress
                         /\ code[i].symbol \notin DOMAIN labels
             firstUse == CHOOSE i \in 1..Len(code) : isVar(i) /\ code[i].symbol = s
                            /\ \A k \in 1..(i - 1) : code[k].symbol # s
         IN  16 + Cardinality({i \in 1..(firstUse - 1) : isVar(i)
                                  /\ \A k \in 1..(i - 1) : code[k].symbol # code[i].symbol})

IsInstruction(l) ==
    l.type # "L"

\* the program in ROM: the instructions of the code, symbols resolved
Load(code) ==
    LET labels == LabelAddresses(code)
        instructions == SelectSeq(code, IsInstruction)
    IN  [i \in 1..Len(instructions) |->
            IF instructions[i].type = "A"
            THEN [type |-> "A", value |-> Resolve(code, labels, instructions[i].symbol)]
            ELSE instructions[i]]

RECURSIVE translate_lines(_, _)
\* the loop of VMTranslator.translate over the lines of a file
translate_lines(w, lines) ==
    IF lines = <<>> THEN w ELSE translate_lines(translate_line(w, Head(lines)), Tail(lines))

\* the output of the translator for the single file Main.vm
SingleFileOutput(lines) ==
    close(translate_lines(set_filename(CodeWriter(TRUE), << <<"M", "a", "i", "n", ".", "v", "m">> >>),
                          lines)).asm_file

(***************************************************************************)
(* Programs run on the machine                                             *)
(***************************************************************************)

MaxArgs == 2

MaxVars == 2

\* the stack: RAM[StackBase .. StackBase + StackDepth]
StackBase == 256

StackDepth == 20

ReturnValues == {0, 42}

\* the caller's LCL, ARG, THIS, THAT before the call
Frames ==
    { <<1, 2, 3, 4>>, <<65535, 0, 32768, 261>> }

\* 16-bit operands of the comparisons
CompareValues == {0, 1, 2, 32767, 32768, 65534, 65535}

RECURSIVE PushArgs(_)
PushArgs(n) ==
    IF n = 0 THEN <<>> ELSE PushArgs(n - 1) \o << <<"push", "constant", ToString(10 + n)>> >>

\* a caller that pushes n_args arguments and calls g; g (n_vars locals),
\* after a call of h when nested, returns value
CallProgram(n_args, n_vars, nested, value) ==
    PushArgs(n_args)
    \o << <<"call", "g", ToString(n_args)>>,
          <<"label", "END">>,
          <<"goto", "END">>,
          <<"function", "g", ToString(n_vars)>> >>
    \o (IF nested THEN << <<"call", "h", "0">>, <<"pop", "temp", "0">> >> ELSE <<>>)
    \o << <<"push", "constant", ToString(value)>>,
          <<"return">>,
          <<"function", "h", "0">>,
          <<"push", "constant", "9">>,
          <<"return">> >>

CallPrograms ==
    {CallProgram(n, v, b, r) : n \in 0..MaxArgs, v \in 0..MaxVars, b \in BOOLEAN, r \in ReturnValues}

\* a pop to each segment addressed through a base, at several indices
PopSegments == {"argument", "local", "this", "that", "temp"}

PopPrograms ==
    { << <<"pop", g, i>> >> : g \in PopSegments, i \in {"0", "1", "7"} }

\* values of the base pointer of the segment: among the pointer cells, in
\* low memory, at the top of the stack, above it, and in high memory
PopBases ==
    {1, 8, StackBase, StackBase + 10, 32760, 65528}

\* the words of high memory the pops can reach
HighRam ==
    {b + i : b \in {32760, 65528}, i \in {0, 1, 7}}

ComparePrograms ==
    { << <<"eq">> >>, << <<"gt">> >>, << <<"lt">> >> }

\* the assembly and the ROM image of each program
MachinePrograms ==
    CallPrograms \cup ComparePrograms \cup PopPrograms

Assembly ==
    [p \in MachinePrograms |-> SingleFileOutput(p)]

Rom ==
    [p \in MachinePrograms |-> Load(Assembly[p])]

Labels ==
    [p \in MachinePrograms |-> LabelAddresses(Assembly[p])]

RamAddresses ==
    0..15 \cup StackBase..(StackBase + StackDepth) \cup HighRam

\* the RAM at the start: the pointers, the stack, and arbitrary words elsewhere
InitialRam(sp, frame, stack) ==
    [a \in RamAddresses |->
        IF a = 0 THEN sp
        ELSE IF a \in 1..4 THEN frame[a]
        ELSE IF a - StackBase + 1 \in 1..Len(stack) THEN stack[a - StackBase + 1]
        ELSE (a * 257 + 7) % Word]

\* the machine at ROM address 0 with the pointers set and the rest of the
\* RAM holding arbitrary words
CpuStart(p, sp, frame, stack) ==
    /\ vm_program = p
    /\ cpu_pc = 0
    /\ reg_A = 0
    /\ reg_D = 0
    /\ ram = InitialRam(sp, frame, stack)
    /\ start = [SP |-> sp, frame |-> frame, stack |-> stack]

\* the instruction at the program counter
Fetch ==
    Rom[vm_program][cpu_pc + 1]

Running ==
    cpu_pc + 1 \in 1..Len(Rom[vm_program])

\* '@value'
StepA ==
    /\ Running
    /\ Fetch.type = "A"
    /\ reg_A' = Fetch.value
    /\ cpu_pc' = cpu_pc + 1
    /\ UNCHANGED <<reg_D, ram, vm_program, start>>
    /\ UNCHANGED <<asmVars, vmVars>>

\* 'dest=comp;jump'; an access to an address outside the RAM stops the machine
StepC ==
    /\ Running
    /\ Fetch.type = "C"
    /\ LET usesM == Fetch.comp \in DOMAIN MemoryComp
           value == IF usesM THEN Alu(MemoryComp[Fetch.comp], reg_D, ram[reg_A])
                    ELSE Alu(Fetch.comp, reg_D, reg_A)
       IN  /\ (usesM \/ Writes(Fetch.dest, "M")) => reg_A \in RamAddresses
           /\ reg_A' = IF Writes(Fetch.dest, "A") THEN value ELSE reg_A
           /\ reg_D' = IF Writes(Fetch.dest, "D") THEN value ELSE reg_D
           /\ ram' = IF Writes(Fetch.dest, "M") THEN [ram EXCEPT ![reg_A] = value] ELSE ram
           /\ cpu_pc' = IF Jumps(Fetch.jump, value) THEN reg_A ELSE cpu_pc + 1
    /\ UNCHANGED <<vm_program, start>>
    /\ UNCHANGED <<asmVars, vmVars>>

CpuNext ==
    \/ StepA
    \/ StepC

InitCall ==
    /\ \E p \in CallPrograms, sp \in {StackBase, StackBase + 1}, frame \in Frames :
          CpuStart(p, sp, frame, <<>>)
    /\ AsmIdle
    /\ VmIdle

SpecCall ==
    InitCall /\ [][CpuNext]_vars /\ WF_vars(CpuNext)

InitCompare ==
    /\ \E p \in ComparePrograms, x \in CompareValues, y \in CompareValues, frame \in Frames :
          CpuStart(p, StackBase + 2, frame, <<x, y>>)
    /\ AsmIdle
    /\ VmIdle

SpecCompare ==
    InitCompare /\ [][CpuNext]_vars

\* the pointer cell of each segment: LCL, ARG, THIS, THAT are RAM[1..4]
BasePointer ==
    [g \in {"local", "argument", "this", "that"} |->
        CASE g = "local" -> 1
          [] g = "argument" -> 2
          [] g = "this" -> 3
          [] g = "that" -> 4]

\* the pointers with base at the cell of the segment popped to
PopFrame(p, base) ==
    [k \in 1..4 |-> IF p[1][2] \in DOMAIN BasePointer /\ BasePointer[p[1][2]] = k
                    THEN base ELSE 10 + k]

InitPop ==
    /\ \E p \in PopPrograms, base \in PopBases, v \in CompareValues :
          CpuStart(p, StackBase + 1, PopFrame(p, base), <<v>>)
    /\ AsmIdle
    /\ VmIdle

\* the machine on the code of a pop
SpecPop ==
    InitPop /\ [][CpuNext]_vars

(***************************************************************************)
(* What the claims say of a run                                            *)
(***************************************************************************)

\* the number of arguments of the call of g
NArgs ==
    NumberOf(CHOOSE t \in {vm_program[i][3] : i \in {k \in 1..Len(vm_program) :
                                vm_program[k][1] = "call" /\ vm_program[k][2] = "g"}} : TRUE)

\* the value that g returns
Returned ==
    LET i == CHOOSE k \in 1..Len(vm_program) : vm_program[k] = <<"function", "h", "0">>
    IN  NumberOf(vm_program[i - 2][3])

\* control is at the instruction that follows the jump of 'call g'
AtReturnAddress ==
    cpu_pc = Labels[vm_program]["g$ret.0"]

\* C5 (state): back from g, LCL, ARG, THIS and THAT are those of before the
\* call, SP is the SP of before the arguments were pushed plus 1, and the
\* top of the stack holds the value g returned.
C5_Balanced ==
    AtReturnAddress =>
        /\ <<ram[1], ram[2], ram[3], ram[4]>> = start.frame
        /\ ram[0] = start.SP + 1
        /\ ram[ram[0] - 1] = Returned

\* C5: the code of call, function and return brings control back to the
\* instruction after the call's jump with the caller's pointers restored,
\* the arguments replaced by the return value; also for no arguments.
C5_CallReturnBalance ==
    [](C5_Balanced) /\ <>(AtReturnAddress)

\* C5 witness: back from a call without arguments whose callee made a call
\* of its own, the pointers are restored and the value is on the stack.
C5_Witness ==
    /\ AtReturnAddress
    /\ NArgs = 0
    /\ <<"call", "h", "0">> \in {vm_program[i] : i \in 1..Len(vm_program)}
    /\ ram[0] = start.SP + 1
    /\ ram[start.SP] = Returned

\* SP when the code of 'call g' starts: the arguments are pushed
CallSP ==
    start.SP + NArgs

\* the ROM addresses of the code of 'call g': from its first instruction to
\* the jump, which the return label follows
CallEntry ==
    Labels[vm_program]["g$ret.0"]
        - Len(SelectSeq(write_call(NewCodeWriter(TRUE), "g", ToString(NArgs)).asm_file,
                        IsInstruction))

InCall ==
    cpu_pc \in CallEntry..(Labels[vm_program]["g$ret.0"] - 1)

\* control has jumped to g
AtCallee ==
    cpu_pc = Labels[vm_program]["g"]

\* C15 (state): the code of the call starts with SP = S; at the jump to g
\* RAM[S] is the return address, RAM[S+1..S+4] the caller's LCL, ARG, THIS,
\* THAT, SP = LCL = S + 5, ARG = S - nArgs, THIS and THAT are unchanged.
C15_Frame ==
    /\ cpu_pc = CallEntry => ram[0] = CallSP
    /\ AtCallee =>
        /\ ram[CallSP] = Labels[vm_program]["g$ret.0"]
        /\ <<ram[CallSP + 1], ram[CallSP + 2], ram[CallSP + 3], ram[CallSP + 4]>> = start.frame
        /\ ram[0] = CallSP + 5
        /\ ram[1] = CallSP + 5
        /\ ram[2] = CallSP - NArgs
        /\ ram[3] = start.frame[3]
        /\ ram[4] = start.frame[4]

\* C15 (step): no instruction of the call changes a RAM cell below S other
\* than ARG and LCL, and SP (RAM[0]), which goes from S to S + 5.
C15_Step ==
    InCall => \A a \in RamAddresses : ram'[a] # ram[a] => a >= CallSP \/ a \in {0, 1, 2}

\* C15: 'call g nArgs' run from SP = S reaches the jump to g with the return
\* address and the caller's LCL, ARG, THIS, THAT in RAM[S..S+4], SP = LCL =
\* S + 5, ARG = S - nArgs, THIS and THAT unchanged, and no other RAM cell
\* below S changed.
C15_CallFrameLayout ==
    [][C15_Step]_vars /\ [](C15_Frame)

\* C15 witness: control is at g after a call with arguments, the frame of
\* five words on the stack above them.
C15_Witness ==
    /\ AtCallee
    /\ NArgs > 0
    /\ CallEntry = 6 * NArgs
    /\ ram[0] = CallSP + 5
    /\ ram[2] = start.SP
    /\ ram[CallSP] = Labels[vm_program]["g$ret.0"]
    /\ ram[CallSP + 2] = start.frame[2]

\* the code of the comparison has run to its end
AtEnd ==
    cpu_pc = Labels[vm_program]["END_LOOP"]

\* C6: eq, gt, lt on x (below the top) and y (top) leave SP one lower and,
\* on top, -1 when x = y, x > y, x < y as signed 16-bit numbers, else 0.
C6_SignedComparison ==
    AtEnd =>
        LET x == Signed(start.stack[1])
            y == Signed(start.stack[2])
            op == vm_program[1][1]
            holds == CASE op = "eq" -> x = y
                       [] op = "gt" -> x > y
                       [] op = "lt" -> x < y
        IN  /\ ram[0] = start.SP - 1
            /\ ram[ram[0] - 1] = IF holds THEN Word - 1 ELSE 0

\* the address 'pop seg i' stores to: RAM[base] + i, and 5 + i for temp
PopTarget ==
    LET g == vm_program[1][2]
        i == NumberOf(vm_program[1][3])
    IN  IF g = "temp" THEN 5 + i ELSE (start.frame[BasePointer[g]] + i) % Word

\* C16: after the code of 'pop seg i' (seg one of argument, local, this,
\* that, temp) the target cell holds the value that was on top of the stack,
\* SP is one lower, and no other RAM cell has changed; sums are modulo 2^16.
C16_PopToSegment ==
    vm_program \in PopPrograms /\ AtEnd =>
        /\ ram[PopTarget] = start.stack[1]
        /\ ram[0] = start.SP - 1
        /\ \A a \in RamAddresses \ {0, PopTarget} :
              ram[a] = InitialRam(start.SP, start.frame, start.stack)[a]

\* C16 witness: a pop to high memory of a value whose sum with the target
\* address overflows 16 bits.
C16_Witness ==
    /\ vm_program = << <<"pop", "that", "7">> >>
    /\ AtEnd
    /\ PopTarget = 65535
    /\ start.stack[1] = 32768
    /\ ram[65535] = 32768
    /\ ram[0] = StackBase

====
